---- MODULE Spec2Model ----
\* setupTLSFromWindowsCertStore (cmd/containerd/server/server_windows.go):
\* one call of the function, statement by statement, with the platform calls'
\* outcomes chosen nondeterministically and Go's deferred calls run LIFO at
\* return.
EXTENDS FiniteSets, Integers, Sequences, TLC

\* ---------------------------------------------------------------- bounds
MaxChains == 2      \* certChain.ChainCount <= MaxChains
MaxElems  == 2      \* chains[i].NumElements <= MaxElems
MaxNameLen == 1     \* length of config.GRPC.TCPTLSCName

\* ---------------------------------------------------------------- values
\* Encoded certificates the store may hold: one that is not valid DER and
\* two distinct well-formed ones.
DER == {"malformed", "derA", "derB"}

\* Characters of a Go string: NUL and one other.
Chars == {"NUL", "c"}

\* The four opaque handles of the function, by the name of the Go variable.
Handles == {"winStore", "certContext", "certChain", "store"}

NoErr == "nil"
ErrStoreName  == "failed to convert store name to UTF16"
ErrOpenStore  == "failed to open windows certificate store"
ErrCommonName == "failed to convert common name to UTF16"
ErrFindCert   == "failed to find certificate in store"
ErrParseLeaf  == "failed to parse leaf certificate"
ErrGetChain   == "failed to retrieve certificate chain"
ErrParseChain == "failed to parse certificate from chain"
ErrOpenKeyStore == "failed to open Windows Certificate Store"
ErrCertKey    == "failed to retrieve private key"

NoClientCert == "NoClientCert"
RequireAndVerifyClientCert == "RequireAndVerifyClientCert"

RECURSIVE SeqsUpTo(_, _)
SeqsUpTo(S, n) ==
    IF n = 0 THEN {<<>>}
    ELSE LET shorter == SeqsUpTo(S, n - 1)
         IN  shorter \cup {Append(s, x) : s \in {t \in shorter : Len(t) = n - 1}, x \in S}

\* Every value config.GRPC.TCPTLSCName can have.
Names == SeqsUpTo(Chars, MaxNameLen)

\* Every CertChainContext the platform can hand back: ChainCount chains of
\* NumElements encoded certificates each.
ChainContexts == SeqsUpTo(SeqsUpTo(DER, MaxElems), MaxChains)

\* The chain contexts whose chains are trust paths of the certificate with
\* encoding d: every chain starts with that certificate, which does not
\* occur again in the chain.
TrustPaths(d) ==
    SeqsUpTo({<<d>> \o rest : rest \in SeqsUpTo(DER \ {d}, MaxElems - 1)}, MaxChains)

\* syscall.UTF16PtrFromString: EINVAL if the string holds a NUL, else the
\* string with a terminating NUL.
UTF16PtrFromString(s) ==
    IF \E k \in 1..Len(s) : s[k] = "NUL"
    THEN [ptr |-> <<>>, err |-> TRUE]
    ELSE [ptr |-> Append(s, "NUL"), err |-> FALSE]

\* x509.ParseCertificate: an error on malformed DER, else the certificate,
\* which keeps its encoding in Raw.
ParseCertificate(der) ==
    IF der = "malformed"
    THEN [cert |-> <<>>, err |-> TRUE]
    ELSE [cert |-> <<[Raw |-> der]>>, err |-> FALSE]

\* What windows.CertFindCertificateInStore can return: a nil context with or
\* without an error, or a context and no error (the binding sets the error
\* only when the context it returns is nil).
FindResults ==
    {[cert |-> <<>>, err |-> TRUE], [cert |-> <<>>, err |-> FALSE]}
      \cup {[cert |-> <<[EncodedCert |-> d]>>, err |-> FALSE] : d \in DER}

VARIABLES
    pc,             \* the statement the call is at
    ret,            \* <<>> or <<[opts, err]>>: the operands of the return statement taken
    acquired,       \* handle -> number of times the platform handed it out
    released,       \* handle -> number of times it was released
    defers,         \* the deferred releases, next to run first
    acquireLog,     \* handles in the order they were acquired
    releaseLog,     \* handles in the order they were released
    opsDone,        \* the platform operations performed, in order
    badUse,         \* an operation was given a handle that was not live
    certContext,    \* <<>> (nil) or <<[EncodedCert]>>
    leafCert,       \* <<>> or <<certificate>>
    certChain,      \* <<>> (nil) or <<chains>>
    i, j,           \* the loop indices
    certChainBytes, \* [][]byte
    certPool,       \* x509.CertPool
    key,            \* <<>> or <<key capability>>
    tcpServerOpts   \* []grpc.ServerOption

vars == <<pc, ret, acquired, released, defers, acquireLog, releaseLog, opsDone,
          badUse, certContext, leafCert, certChain, i, j, certChainBytes,
          certPool, key, tcpServerOpts>>

Live(h) == acquired[h] = 1 /\ released[h] = 0

\* Faulty variants of Defer: first-in first-out, and a release never deferred.
DeferFIFO(stack, h) == Append(stack, h)
DeferDropped(stack, h) == stack
\* defer f(h): deferred calls run last-in first-out.
Defer(stack, h) == <<h>> \o stack

\* Faulty variant of ErrReturn: return nil, nil.
ErrReturnSwallowed(msg) == [opts |-> <<>>, err |-> NoErr]
\* return nil, fmt.Errorf(msg, err)
ErrReturn(msg) == [opts |-> <<>>, err |-> msg]

\* if err != nil || certContext == nil
LookupFailed(r) == r.err \/ r.cert = <<>>

\* Faulty variant of IsSkipped: if j == 0.
IsSkippedEveryChain(ci, cj) == cj = 0
\* if i == 0 && j == 0 { continue }
IsSkipped(ci, cj) == ci = 0 /\ cj = 0

\* Faulty variant of ClientAuthFor: set unconditionally.
ClientAuthAlways(bytes) == RequireAndVerifyClientCert
\* if len(certChainBytes) > 0 { ClientAuth = RequireAndVerifyClientCert }
ClientAuthFor(bytes) ==
    IF Len(bytes) > 0 THEN RequireAndVerifyClientCert ELSE NoClientCert

Init ==
    /\ pc = "storeName"
    /\ ret = <<>>
    /\ acquired = [h \in Handles |-> 0]
    /\ released = [h \in Handles |-> 0]
    /\ defers = <<>>
    /\ acquireLog = <<>>
    /\ releaseLog = <<>>
    /\ opsDone = <<>>
    /\ badUse = FALSE
    /\ certContext = <<>>
    /\ leafCert = <<>>
    /\ certChain = <<>>
    /\ i = 0
    /\ j = 0
    /\ certChainBytes = <<>>
    /\ certPool = {}
    /\ key = <<>>
    /\ tcpServerOpts = <<>>

\* A return statement with an error: the operands are fixed, the deferred
\* calls run next.
Fail(msg) ==
    /\ ret' = <<ErrReturn(msg)>>
    /\ pc' = "return"

\* The platform hands out handle h and its release is deferred.
Acquire(h) ==
    /\ acquired' = [acquired EXCEPT ![h] = @ + 1]
    /\ acquireLog' = Append(acquireLog, h)
    /\ defers' = Defer(defers, h)

NoAcquire == UNCHANGED <<acquired, acquireLog, defers>>

\* The platform operation op is performed, and succeeds or not.
Did(op, ok) == opsDone' = Append(opsDone, [op |-> op, ok |-> ok])

\* The handles hs are passed to an operation.
Use(hs) == badUse' = (badUse \/ \E h \in hs : ~Live(h))

\* storeName, err := syscall.UTF16PtrFromString("My")
StoreName ==
    /\ pc = "storeName"
    /\ Use({})
    /\ LET r == UTF16PtrFromString(<<"M", "y">>)
       IN  /\ Did("storeName", ~r.err)
           /\ IF r.err
              THEN Fail(ErrStoreName)
              ELSE pc' = "openStore" /\ UNCHANGED ret
    /\ NoAcquire
    /\ UNCHANGED <<released, releaseLog, certContext, leafCert, certChain, i, j,
                   certChainBytes, certPool, key, tcpServerOpts>>

\* Faulty variant of CertOpenStore: the error is not checked.
CertOpenStoreUnchecked ==
    /\ pc = "openStore"
    /\ Use({})
    /\ \E ok \in BOOLEAN :
         /\ Did("openStore", ok)
         /\ IF ok THEN Acquire("winStore") ELSE NoAcquire
         /\ pc' = "commonName"
         /\ UNCHANGED ret
    /\ UNCHANGED <<released, releaseLog, certContext, leafCert, certChain, i, j,
                   certChainBytes, certPool, key, tcpServerOpts>>

\* winStore, err := windows.CertOpenStore(...)
\* defer windows.CertCloseStore(winStore, 0)
CertOpenStore ==
    /\ pc = "openStore"
    /\ Use({})
    /\ \E ok \in BOOLEAN :
         /\ Did("openStore", ok)
         /\ IF ok
            THEN Acquire("winStore") /\ pc' = "commonName" /\ UNCHANGED ret
            ELSE NoAcquire /\ Fail(ErrOpenStore)
    /\ UNCHANGED <<released, releaseLog, certContext, leafCert, certChain, i, j,
                   certChainBytes, certPool, key, tcpServerOpts>>

\* commonName, err := syscall.UTF16PtrFromString(config.GRPC.TCPTLSCName)
CommonName ==
    /\ pc = "commonName"
    /\ Use({})
    /\ \E name \in Names :
         LET r == UTF16PtrFromString(name)
         IN  /\ Did("commonName", ~r.err)
             /\ IF r.err
                THEN Fail(ErrCommonName)
                ELSE pc' = "findCert" /\ UNCHANGED ret
    /\ NoAcquire
    /\ UNCHANGED <<released, releaseLog, certContext, leafCert, certChain, i, j,
                   certChainBytes, certPool, key, tcpServerOpts>>

\* Faulty variant of CertFindCertificateInStore: the release is deferred
\* before the result is checked.
CertFindDeferFirst ==
    /\ pc = "findCert"
    /\ Use({"winStore"})
    /\ \E r \in FindResults :
         /\ Did("findCert", ~LookupFailed(r))
         /\ certContext' = r.cert
         /\ acquired' = [acquired EXCEPT !["certContext"] =
                            IF r.cert = <<>> THEN @ ELSE @ + 1]
         /\ acquireLog' = IF r.cert = <<>> THEN acquireLog
                          ELSE Append(acquireLog, "certContext")
         /\ defers' = Defer(defers, "certContext")
         /\ IF LookupFailed(r)
            THEN Fail(ErrFindCert)
            ELSE pc' = "parseLeaf" /\ UNCHANGED ret
    /\ UNCHANGED <<released, releaseLog, leafCert, certChain, i, j,
                   certChainBytes, certPool, key, tcpServerOpts>>

\* certContext, err := windows.CertFindCertificateInStore(winStore, ...)
\* if err != nil || certContext == nil { return nil, ... }
\* defer windows.CertFreeCertificateContext(certContext)
CertFindCertificateInStore ==
    /\ pc = "findCert"
    /\ Use({"winStore"})
    /\ \E r \in FindResults :
         /\ Did("findCert", ~LookupFailed(r))
         /\ certContext' = r.cert
         /\ IF LookupFailed(r)
            THEN NoAcquire /\ Fail(ErrFindCert)
            ELSE Acquire("certContext") /\ pc' = "parseLeaf" /\ UNCHANGED ret
    /\ UNCHANGED <<released, releaseLog, leafCert, certChain, i, j,
                   certChainBytes, certPool, key, tcpServerOpts>>

\* certDER := unsafe.Slice(certContext.EncodedCert, certContext.Length)
\* leafCert, err := x509.ParseCertificate(certDER)
ParseLeaf ==
    /\ pc = "parseLeaf"
    /\ Use({"certContext"})
    /\ LET r == ParseCertificate(certContext[1].EncodedCert)
       IN  /\ Did("parseLeaf", ~r.err)
           /\ IF r.err
              THEN Fail(ErrParseLeaf) /\ UNCHANGED leafCert
              ELSE leafCert' = r.cert /\ pc' = "getChain" /\ UNCHANGED ret
    /\ NoAcquire
    /\ UNCHANGED <<released, releaseLog, certContext, certChain, i, j,
                   certChainBytes, certPool, key, tcpServerOpts>>

\* err = windows.CertGetCertificateChain(0, certContext, ..., &certChain)
\* defer windows.CertFreeCertificateChain(certChain)
\* certPool := x509.NewCertPool(); var certChainBytes [][]byte; i := 0
\* contexts: the chain contexts the platform may hand back.
GetChainFrom(contexts) ==
    /\ pc = "getChain"
    /\ Use({"certContext"})
    /\ \/ /\ Did("getChain", FALSE)
          /\ NoAcquire
          /\ Fail(ErrGetChain)
          /\ UNCHANGED certChain
       \/ \E c \in contexts :
            /\ Did("getChain", TRUE)
            /\ certChain' = <<c>>
            /\ Acquire("certChain")
            /\ pc' = "loop"
            /\ UNCHANGED ret
    /\ i' = 0
    /\ j' = 0
    /\ certPool' = {}
    /\ certChainBytes' = <<>>
    /\ UNCHANGED <<released, releaseLog, certContext, leafCert, key, tcpServerOpts>>

\* The platform hands back any chain context.
CertGetCertificateChain == GetChainFrom(ChainContexts)

\* The platform hands back trust paths of the certificate it was given.
CertGetCertificateChainPaths == GetChainFrom(TrustPaths(certContext[1].EncodedCert))

ChainCount == Len(certChain[1])
NumElements(ci) == Len(certChain[1][ci + 1])
Element(ci, cj) == certChain[1][ci + 1][cj + 1]

\* i < ChainCount fails: the outer loop ends.
LoopExit ==
    /\ pc = "loop"
    /\ ~(i < ChainCount)
    /\ pc' = "openKeyStore"
    /\ UNCHANGED <<ret, acquired, released, defers, acquireLog, releaseLog,
                   opsDone, badUse, certContext, leafCert, certChain, i, j,
                   certChainBytes, certPool, key, tcpServerOpts>>

\* j < NumElements fails: the inner loop ends, i++.
LoopNextChain ==
    /\ pc = "loop"
    /\ i < ChainCount
    /\ ~(j < NumElements(i))
    /\ i' = i + 1
    /\ j' = 0
    /\ UNCHANGED <<pc, ret, acquired, released, defers, acquireLog, releaseLog,
                   opsDone, badUse, certContext, leafCert, certChain,
                   certChainBytes, certPool, key, tcpServerOpts>>

\* if i == 0 && j == 0 { continue }
LoopSkipLeaf ==
    /\ pc = "loop"
    /\ i < ChainCount
    /\ j < NumElements(i)
    /\ IsSkipped(i, j)
    /\ j' = j + 1
    /\ UNCHANGED <<pc, ret, acquired, released, defers, acquireLog, releaseLog,
                   opsDone, badUse, certContext, leafCert, certChain, i,
                   certChainBytes, certPool, key, tcpServerOpts>>

\* Faulty variant of LoopElement: an element that does not parse is left
\* out of the pool and the loop goes on.
LoopElementLenient ==
    /\ pc = "loop"
    /\ i < ChainCount
    /\ j < NumElements(i)
    /\ ~IsSkipped(i, j)
    /\ Use({"certChain"})
    /\ LET certBytes == Element(i, j)
           r == ParseCertificate(certBytes)
       IN  /\ certChainBytes' = Append(certChainBytes, certBytes)
           /\ certPool' = IF r.err THEN certPool ELSE certPool \cup {r.cert[1]}
           /\ j' = j + 1
           /\ UNCHANGED <<pc, ret>>
    /\ UNCHANGED <<acquired, released, defers, acquireLog, releaseLog, opsDone,
                   certContext, leafCert, certChain, i, key, tcpServerOpts>>

\* The loop body for an element that is not skipped: copy its bytes, append
\* them to certChainBytes, parse them, add the certificate to certPool.
LoopElement ==
    /\ pc = "loop"
    /\ i < ChainCount
    /\ j < NumElements(i)
    /\ ~IsSkipped(i, j)
    /\ Use({"certChain"})
    /\ LET certBytes == Element(i, j)
           r == ParseCertificate(certBytes)
       IN  /\ certChainBytes' = Append(certChainBytes, certBytes)
           /\ IF r.err
              THEN Fail(ErrParseChain) /\ UNCHANGED <<certPool, j>>
              ELSE /\ certPool' = certPool \cup {r.cert[1]}
                   /\ j' = j + 1
                   /\ UNCHANGED <<pc, ret>>
    /\ UNCHANGED <<acquired, released, defers, acquireLog, releaseLog, opsDone,
                   certContext, leafCert, certChain, i, key, tcpServerOpts>>

\* Faulty variant of OpenWinCertStore: the store is closed at once instead
\* of at return.
OpenWinCertStoreCloseEarly ==
    /\ pc = "openKeyStore"
    /\ Use({})
    /\ \E ok \in BOOLEAN :
         /\ Did("openKeyStore", ok)
         /\ IF ok
            THEN /\ acquired' = [acquired EXCEPT !["store"] = @ + 1]
                 /\ acquireLog' = Append(acquireLog, "store")
                 /\ released' = [released EXCEPT !["store"] = @ + 1]
                 /\ releaseLog' = Append(releaseLog, "store")
                 /\ pc' = "certKey"
                 /\ UNCHANGED <<ret, defers>>
            ELSE /\ NoAcquire
                 /\ Fail(ErrOpenKeyStore)
                 /\ UNCHANGED <<released, releaseLog>>
    /\ UNCHANGED <<certContext, leafCert, certChain, i, j,
                   certChainBytes, certPool, key, tcpServerOpts>>

\* store, err := certtostore.OpenWinCertStore(..., leafCert.Issuer.CommonName, ...)
\* defer store.Close()
OpenWinCertStore ==
    /\ pc = "openKeyStore"
    /\ Use({})
    /\ \E ok \in BOOLEAN :
         /\ Did("openKeyStore", ok)
         /\ IF ok
            THEN Acquire("store") /\ pc' = "certKey" /\ UNCHANGED ret
            ELSE NoAcquire /\ Fail(ErrOpenKeyStore)
    /\ UNCHANGED <<released, releaseLog, certContext, leafCert, certChain, i, j,
                   certChainBytes, certPool, key, tcpServerOpts>>

\* key, err := store.CertKey(certContext)
CertKey ==
    /\ pc = "certKey"
    /\ Use({"store", "certContext"})
    /\ \E ok \in BOOLEAN :
         /\ Did("certKey", ok)
         /\ IF ok
            THEN /\ key' = <<[cert |-> certContext[1].EncodedCert]>>
                 /\ pc' = "assemble"
                 /\ UNCHANGED ret
            ELSE Fail(ErrCertKey) /\ UNCHANGED key
    /\ NoAcquire
    /\ UNCHANGED <<released, releaseLog, certContext, leafCert, certChain, i, j,
                   certChainBytes, certPool, tcpServerOpts>>

\* tlsCert := tls.Certificate{...}; tlsConfig := &tls.Config{...}
\* tcpServerOpts = append(tcpServerOpts, grpc.Creds(credentials.NewTLS(tlsConfig)))
\* return tcpServerOpts, nil
Assemble ==
    /\ pc = "assemble"
    /\ LET tlsCert == [PrivateKey  |-> key[1],
                       Leaf        |-> leafCert[1],
                       Certificate |-> <<leafCert[1].Raw>> \o certChainBytes]
           tlsConfig == [Certificates |-> <<tlsCert>>,
                         ClientCAs    |-> certPool,
                         ClientAuth   |-> ClientAuthFor(certChainBytes)]
       IN  /\ tcpServerOpts' = Append(tcpServerOpts, [creds |-> tlsConfig])
           /\ ret' = <<[opts |-> tcpServerOpts', err |-> NoErr]>>
    /\ pc' = "return"
    /\ UNCHANGED <<acquired, released, defers, acquireLog, releaseLog, opsDone,
                   badUse, certContext, leafCert, certChain, i, j,
                   certChainBytes, certPool, key>>

\* At return the deferred calls run, the last deferred first.
RunDeferred ==
    /\ pc = "return"
    /\ defers # <<>>
    /\ released' = [released EXCEPT ![Head(defers)] = @ + 1]
    /\ releaseLog' = Append(releaseLog, Head(defers))
    /\ defers' = Tail(defers)
    /\ UNCHANGED <<pc, ret, acquired, acquireLog, opsDone, badUse, certContext,
                   leafCert, certChain, i, j, certChainBytes, certPool, key,
                   tcpServerOpts>>

\* The call returns to its caller with the operands of its return statement.
Return ==
    /\ pc = "return"
    /\ defers = <<>>
    /\ pc' = "done"
    /\ UNCHANGED <<ret, acquired, released, defers, acquireLog, releaseLog,
                   opsDone, badUse, certContext, leafCert, certChain, i, j,
                   certChainBytes, certPool, key, tcpServerOpts>>

Next ==
    \/ StoreName
    \/ CertOpenStore
    \/ CommonName
    \/ CertFindCertificateInStore
    \/ ParseLeaf
    \/ CertGetCertificateChain
    \/ LoopExit
    \/ LoopNextChain
    \/ LoopSkipLeaf
    \/ LoopElement
    \/ OpenWinCertStore
    \/ CertKey
    \/ Assemble
    \/ RunDeferred
    \/ Return

Spec == Init /\ [][Next]_vars

\* The same call on a platform whose chain contexts are trust paths.
NextPaths ==
    \/ StoreName
    \/ CertOpenStore
    \/ CommonName
    \/ CertFindCertificateInStore
    \/ ParseLeaf
    \/ CertGetCertificateChainPaths
    \/ LoopExit
    \/ LoopNextChain
    \/ LoopSkipLeaf
    \/ LoopElement
    \/ OpenWinCertStore
    \/ CertKey
    \/ Assemble
    \/ RunDeferred
    \/ Return

SpecPaths == Init /\ [][NextPaths]_vars

\* ------------------------------------------------------------ properties
Returned  == pc = "done"
Succeeded == ret # <<>> /\ ret[1].err = NoErr
Failed    == ret # <<>> /\ ret[1].err # NoErr

RECURSIVE Reverse(_)
Reverse(s) == IF s = <<>> THEN <<>> ELSE Append(Reverse(Tail(s)), Head(s))

IsPrefix(s, t) == Len(s) <= Len(t) /\ s = SubSeq(t, 1, Len(s))

Range(s) == {s[k] : k \in 1..Len(s)}

OpNames == [k \in 1..Len(opsDone) |-> opsDone[k].op]

AcquisitionOrder == <<"winStore", "certContext", "certChain", "store">>

StageOrder == <<"storeName", "openStore", "commonName", "findCert",
                "parseLeaf", "getChain", "openKeyStore", "certKey">>

RECURSIVE Flatten(_)
Flatten(c) == IF c = <<>> THEN <<>> ELSE Head(c) \o Flatten(Tail(c))

\* All elements of all chains in order, element 0 of chain 0 left out.
AllButFirst(c) ==
    IF c = <<>> THEN <<>>
    ELSE (IF Head(c) = <<>> THEN <<>> ELSE Tail(Head(c))) \o Flatten(Tail(c))

\* The TLS configuration carried by the single returned option.
Config == ret[1].opts[1].creds

\* C1: every handle is released at most once and only if acquired, and when
\* the call has returned, on whichever path, every acquired handle has been
\* released exactly once and no other handle has been released.
C1_ReleasedExactlyOnce ==
    /\ \A h \in Handles : released[h] <= acquired[h] /\ acquired[h] <= 1
    /\ Returned => \A h \in Handles : released[h] = acquired[h]

C1_Witness ==
    /\ Returned
    /\ Failed
    /\ ret[1].err = ErrCertKey
    /\ \A h \in Handles : acquired[h] = 1 /\ released[h] = 1

\* C2: handles are acquired in the order winStore, certContext, certChain,
\* store, and the releases are the acquired handles in the reverse order.
C2_ReverseOrder ==
    /\ IsPrefix(acquireLog, AcquisitionOrder)
    /\ IsPrefix(releaseLog, Reverse(acquireLog))
    /\ Returned => releaseLog = Reverse(acquireLog)

C2_Witness ==
    /\ Returned
    /\ releaseLog = <<"store", "certChain", "certContext", "winStore">>

\* C3: on success the leaf's raw bytes are not in certChainBytes, no
\* certificate of certPool has them, and the identity's certificate list
\* holds them at the first position only.
C3_LeafNeverInPool ==
    (Returned /\ Succeeded) =>
        /\ leafCert[1].Raw \notin Range(certChainBytes)
        /\ \A c \in Config.ClientCAs : c.Raw # leafCert[1].Raw
        /\ \A k \in 2..Len(Config.Certificates[1].Certificate) :
              Config.Certificates[1].Certificate[k] # leafCert[1].Raw

\* C4: on success ClientAuth is RequireAndVerifyClientCert exactly when
\* certChainBytes is not empty, and is the default when the chains hold no
\* element besides element 0 of chain 0.
C4_ClientAuthIffPool ==
    Succeeded =>
        /\ Config.ClientAuth \in {RequireAndVerifyClientCert, NoClientCert}
        /\ Config.ClientAuth = RequireAndVerifyClientCert <=> certChainBytes # <<>>
        /\ AllButFirst(certChain[1]) = <<>> => Config.ClientAuth = NoClientCert

C4_Witness ==
    /\ Returned
    /\ Succeeded
    /\ certChain[1] = <<<<leafCert[1].Raw>>>>
    /\ Config.ClientAuth = NoClientCert

\* C5: a return statement has been taken exactly when the call is returning
\* or has returned, and its operands are either a nil error with one option
\* holding the whole configuration, or an error with no option.
C5_NoPartialSuccess ==
    /\ (pc \in {"return", "done"}) <=> (ret # <<>>)
    /\ ret # <<>> =>
         \/ /\ ret[1].err # NoErr
            /\ ret[1].opts = <<>>
         \/ /\ ret[1].err = NoErr
            /\ Len(ret[1].opts) = 1
            /\ Len(Config.Certificates) = 1
            /\ key # <<>> /\ Config.Certificates[1].PrivateKey = key[1]
            /\ leafCert # <<>> /\ Config.Certificates[1].Leaf = leafCert[1]
            /\ Config.Certificates[1].Certificate = <<leafCert[1].Raw>> \o certChainBytes
            /\ Config.ClientCAs = certPool
            /\ Len(certChainBytes) = Len(AllButFirst(certChain[1]))

C5_Witness ==
    /\ Returned
    /\ Failed
    /\ certChainBytes # <<>>
    /\ certPool # {}
    /\ ret[1].opts = <<>>

\* C6: on success certChainBytes is every element of every chain in order
\* with element 0 of chain 0 left out, certPool is the certificates parsed
\* from them, and the identity's list is the leaf's bytes followed by them.
C6_PoolIsChainMinusFirst ==
    Succeeded =>
        /\ certChainBytes = AllButFirst(certChain[1])
        /\ Config.ClientCAs = {[Raw |-> b] : b \in Range(AllButFirst(certChain[1]))}
        /\ Config.Certificates[1].Certificate
              = <<certContext[1].EncodedCert>> \o AllButFirst(certChain[1])
        /\ Len(Config.Certificates[1].Certificate) = 1 + Len(certChainBytes)

C6_Witness ==
    /\ Returned
    /\ Succeeded
    /\ Len(certChain[1]) = 2
    /\ Len(certChain[1][1]) = 2
    /\ Len(certChain[1][2]) = 2
    /\ Len(certChainBytes) = 3

\* The lookup has been performed and has left certContext nil.
LookupMissed == "findCert" \in Range(OpNames) /\ certContext = <<>>

\* C7: when the lookup has returned a nil certContext the call fails with
\* the not-found error and no option, certContext is never released,
\* winStore is released once, and no later operation is performed.
C7_LookupMiss ==
    LookupMissed =>
        /\ pc \in {"return", "done"}
        /\ Failed /\ ret[1].opts = <<>> /\ ret[1].err = ErrFindCert
        /\ acquired["certContext"] = 0
        /\ released["certContext"] = 0
        /\ released["winStore"] <= 1
        /\ Returned => released["winStore"] = 1
        /\ Range(OpNames) \cap {"parseLeaf", "getChain", "openKeyStore", "certKey"} = {}

C7_Witness ==
    /\ LookupMissed
    /\ Returned
    /\ released["winStore"] = 1

\* C8: a malformed entry of certChainBytes is its last one and the call has
\* failed on it with the chain-element error: the key store is never opened
\* and no option is returned.
C8_ElementParseHardFailure ==
    /\ \A k \in 1..Len(certChainBytes) :
          certChainBytes[k] = "malformed" =>
             /\ k = Len(certChainBytes)
             /\ pc \in {"return", "done"}
             /\ Failed /\ ret[1].opts = <<>> /\ ret[1].err = ErrParseChain
    /\ (Failed /\ ret[1].err = ErrParseChain) =>
          /\ certChainBytes # <<>>
          /\ certChainBytes[Len(certChainBytes)] = "malformed"
          /\ certChainBytes[Len(certChainBytes)] = Element(i, j)
          /\ IsPrefix(certChainBytes, AllButFirst(certChain[1]))
          /\ acquired["store"] = 0
          /\ key = <<>>
          /\ "openKeyStore" \notin Range(OpNames)
    /\ pc \in {"openKeyStore", "certKey", "assemble"} \/ Succeeded =>
          "malformed" \notin Range(AllButFirst(certChain[1]))

C8_Witness ==
    /\ Returned
    /\ Failed
    /\ ret[1].err = ErrParseChain
    /\ Len(certChainBytes) >= 2
    /\ certPool # {}
    /\ Len(AllButFirst(certChain[1])) > Len(certChainBytes)

\* The pipeline state of the specification's state machine that a statement
\* of the function belongs to.
PipelineState ==
    CASE pc \in {"storeName", "openStore"}    -> "Init"
      [] pc \in {"commonName", "findCert"}    -> "StoreOpen"
      [] pc = "parseLeaf"                     -> "CertFound"
      [] pc \in {"getChain", "loop"}          -> "LeafParsed"
      [] pc \in {"openKeyStore", "certKey"}   -> "ChainResolved"
      [] pc = "assemble"                      -> "KeyBound"
      [] OTHER -> IF Succeeded THEN "Assembled" ELSE "Failed"

PipelineOrder == <<"Init", "StoreOpen", "CertFound", "LeafParsed",
                   "ChainResolved", "KeyBound", "Assembled">>

\* The error each operation fails with.
StageError ==
    [storeName |-> ErrStoreName, openStore |-> ErrOpenStore,
     commonName |-> ErrCommonName, findCert |-> ErrFindCert,
     parseLeaf |-> ErrParseLeaf, getChain |-> ErrGetChain,
     openKeyStore |-> ErrOpenKeyStore, certKey |-> ErrCertKey]

LastOp == opsDone[Len(opsDone)]

C9_StageInvariant ==
    /\ IsPrefix(OpNames, StageOrder)
    /\ \A k \in 1..(Len(opsDone) - 1) : opsDone[k].ok
    /\ (opsDone # <<>> /\ ~LastOp.ok) =>
          Failed /\ ret[1].err = StageError[LastOp.op]
    /\ Failed =>
          \/ ~LastOp.ok
          \/ LastOp.op = "getChain" /\ ret[1].err = ErrParseChain
    /\ Succeeded => OpNames = StageOrder /\ \A k \in 1..Len(opsDone) : opsDone[k].ok
    /\ ret # <<>> => pc \in {"return", "done"}

C9_StageStep ==
    /\ \/ PipelineState' = PipelineState
       \/ \E k \in 1..(Len(PipelineOrder) - 1) :
             PipelineState = PipelineOrder[k] /\ PipelineState' = PipelineOrder[k + 1]
       \/ PipelineState \notin {"Assembled", "Failed"} /\ PipelineState' = "Failed"
    /\ ret # <<>> =>
          /\ ret' = ret
          /\ opsDone' = opsDone
          /\ certChainBytes' = certChainBytes
          /\ acquired' = acquired

\* C9: the operations are performed in the order of the stages, each once
\* and only after all earlier ones succeeded; the pipeline state moves one
\* step forward at a time or to Failed, with the failing operation's error;
\* after a return statement no operation is performed and the result stays.
C9_StageOrder == []C9_StageInvariant /\ [][C9_StageStep]_vars

C9_Witness ==
    /\ Returned
    /\ Failed
    /\ ret[1].err = ErrGetChain
    /\ OpNames = SubSeq(StageOrder, 1, 6)

\* C10: no operation is given a handle that is not live, no handle is
\* released before the return statement is taken, the key is obtained
\* while store and certContext are live, and on success the caller gets it
\* after both are released.
C10_NoUseAfterRelease ==
    /\ ~badUse
    /\ releaseLog # <<>> => pc \in {"return", "done"}
    /\ pc \notin {"return", "done"} => \A h \in Handles : released[h] = 0
    /\ pc = "assemble" => key # <<>> /\ Live("store") /\ Live("certContext")
    /\ (Returned /\ Succeeded) =>
          /\ Config.Certificates[1].PrivateKey = key[1]
          /\ released["store"] = 1
          /\ released["certContext"] = 1

C10_Witness ==
    /\ Returned
    /\ Succeeded
    /\ key # <<>>
    /\ released["store"] = 1
    /\ released["certContext"] = 1
    /\ certChainBytes # <<>>
====
